---------------------------- MODULE Spec2Model ----------------------------
(***************************************************************************)
(* Model of the quote-computation and state-synchronisation core of the    *)
(* stakedex SDK: the SPL / Socean stake-pool adapters' refresh, the        *)
(* unstake.it deposit quote, and the prefund flash-loan sizing.            *)
(*                                                                         *)
(* Amounts are counted in units of 55,680 lamports, the greatest common    *)
(* divisor of the two rent-exempt minima (2,282,880 and 890,880), so the   *)
(* constants keep their exact ratio and every product stays inside TLC's   *)
(* integers.                                                               *)
(***************************************************************************)
EXTENDS Integers, Sequences, FiniteSets, TLC

VARIABLES adapter, params, unstake_it, last

vars == <<adapter, params, unstake_it, last>>

(***************************************************************************)
(* Bounds                                                                  *)
(***************************************************************************)
MaxEpoch == 1
MaxPrefundUpdates == 1
MaxValidatorIndex == 2

(***************************************************************************)
(* Results                                                                 *)
(***************************************************************************)
Ok == [tag |-> "Ok", addr |-> "-"]
MissingAccount(a) == [tag |-> "MissingAccount", addr |-> a]
Deserialize(a) == [tag |-> "Deserialize", addr |-> a]
WrongStakeStake == [tag |-> "WrongStakeStake", addr |-> "-"]

(***************************************************************************)
(* Addresses                                                               *)
(***************************************************************************)
stake_pool_addr == "POOL"
spl_deposit_cap_guard_program_address == "CAP"
sysvar_clock_ID == "CLOCK"
ValidatorListAddrs == {"VL1", "VL2"}
ReserveStakeAddr == "RES"
DefaultPubkey == "11111111"

(***************************************************************************)
(* Account contents.  An account's data either parses as exactly one of    *)
(* the program's types or is garbage.                                      *)
(***************************************************************************)
ValidatorEntry(vote, active, status) ==
    [vote_account_address |-> vote, active_stake_lamports |-> active, status |-> status]

DefaultValidatorList == << >>
ValidatorListA == << ValidatorEntry("V1", 60, "Active") >>
ValidatorListB == << ValidatorEntry("V1", 60, "Active"), ValidatorEntry("V2", 200, "ReadyForRemoval") >>
ValidatorLists == {ValidatorListA, ValidatorListB}

(* total_lamports, pool_token_supply and the stake withdrawal fee of a pool *)
Econ(total, supply, feeNum, feeDenom) ==
    [total_lamports |-> total, pool_token_supply |-> supply,
     fee_numerator |-> feeNum, fee_denominator |-> feeDenom]

DefaultEcon == Econ(0, 0, 0, 0)
RefreshEcon == Econ(110, 100, 1, 10)

StakePoolWith(vl, solAuth, stakeAuth, epoch, econ) ==
    [validator_list |-> vl, reserve_stake |-> ReserveStakeAddr,
     sol_deposit_authority |-> solAuth, stake_deposit_authority |-> stakeAuth,
     last_update_epoch |-> epoch,
     total_lamports |-> econ.total_lamports,
     pool_token_supply |-> econ.pool_token_supply,
     stake_withdrawal_fee |->
         [numerator |-> econ.fee_numerator, denominator |-> econ.fee_denominator]]

StakePool(vl, solAuth, stakeAuth, epoch) ==
    StakePoolWith(vl, solAuth, stakeAuth, epoch, RefreshEcon)

(* The stake pools the snapshots carry: both validator-list addresses, with
   and without a deposit cap on either authority, at both ends of the epoch
   range. *)
StakePools ==
    { StakePool("VL1", "NONE", "DEFAULT", 0),
      StakePool("VL2", "NONE", "DEFAULT", MaxEpoch),
      StakePool("VL1", "CAP", "DEFAULT", MaxEpoch),
      StakePool("VL2", "NONE", "CAP", 0) }

DefaultStakePool == StakePoolWith(DefaultPubkey, "NONE", "DEFAULT", 0, DefaultEcon)

DefaultDepositCapState == "uninit"
DepositCapStates == {"capA"}

Garbage == [kind |-> "Garbage", val |-> "-"]
Data(kind, val) == [kind |-> kind, val |-> val]
Account(data, lamports) == [data |-> data, lamports |-> lamports]

ParsesAs(data, kind) == data.kind = kind


(***************************************************************************)
(* AccountMap: address -> Option<Account>.  NoAccount is a key the map     *)
(* does not hold.                                                          *)
(***************************************************************************)
NoAccount == Account([kind |-> "None", val |-> "-"], 0)
Has(accounts_map, a) == a \in DOMAIN accounts_map /\ accounts_map[a] # NoAccount

Addrs == {stake_pool_addr, "VL1", "VL2", spl_deposit_cap_guard_program_address,
          ReserveStakeAddr, sysvar_clock_ID}

PoolOpts == {NoAccount, Account(Garbage, 1)}
              \cup {Account(Data("StakePool", p), 1) : p \in StakePools}
ValidatorListOpts == {NoAccount, Account(Garbage, 1)}
              \cup {Account(Data("ValidatorList", v), 1) : v \in ValidatorLists}
ValidatorListOpts2 == {NoAccount, Account(Data("ValidatorList", ValidatorListB), 1)}
DepositCapOpts == {NoAccount, Account(Garbage, 1)}
              \cup {Account(Data("DepositCap", c), 1) : c \in DepositCapStates}
ReserveOpts == {NoAccount, Account(Garbage, 0), Account(Garbage, 5)}
ClockOpts == {NoAccount, Account(Garbage, 1)}
              \cup {Account(Data("Clock", e), 1) : e \in 0..MaxEpoch}

AccountMapOf(p, v1, v2, c, r, k) ==
    [a \in Addrs |->
        CASE a = stake_pool_addr -> p
          [] a = "VL1" -> v1
          [] a = "VL2" -> v2
          [] a = spl_deposit_cap_guard_program_address -> c
          [] a = ReserveStakeAddr -> r
          [] OTHER -> k]

(***************************************************************************)
(* Adapters.  One record shape serves the three adapters: kind "spl" is    *)
(* SplStakePoolStakedex, "socean" is SoceanStakePoolStakedex, and          *)
(* "withdrawsol" is SplStakePoolStakedexWithWithdrawSol, whose `inner` is  *)
(* the SPL fields of the record.  reserve_stake_lamports = 0 is None.      *)
(***************************************************************************)
(* The epoch of the AmmContext clock the SPL adapters are constructed with. *)
AmmContextEpochs == {MaxEpoch}

Kinds == {"spl", "socean", "withdrawsol"}

NoAdapter ==
    [kind |-> "none", stake_pool |-> DefaultStakePool,
     validator_list |-> DefaultValidatorList, curr_epoch |-> 0,
     deposit_cap_state |-> DefaultDepositCapState, reserve_stake_lamports |-> 0]

Step(self, res) == [self |-> self, res |-> res]

update_stake_pool(self, data) ==
    IF ParsesAs(data, "StakePool")
    THEN Step([self EXCEPT !.stake_pool = data.val], Ok)
    ELSE Step(self, Deserialize(stake_pool_addr))

update_validator_list(self, data) ==
    IF ParsesAs(data, "ValidatorList")
    THEN Step([self EXCEPT !.validator_list = data.val], Ok)
    ELSE Step(self, Deserialize(self.stake_pool.validator_list))

update_deposit_cap_state(self, data) ==
    IF ParsesAs(data, "DepositCap")
    THEN Step([self EXCEPT !.deposit_cap_state = data.val], Ok)
    ELSE Step(self, Deserialize(spl_deposit_cap_guard_program_address))

is_sol_deposit_capped(self) ==
    self.stake_pool.sol_deposit_authority = spl_deposit_cap_guard_program_address

is_stake_deposit_capped(self) ==
    self.stake_pool.stake_deposit_authority = spl_deposit_cap_guard_program_address

(* SplFromKeyedAccount answering with an adapter around the default stake
   pool when the main account does not parse *)
SplFromKeyedAccountLenient(kind, account, epoch) ==
    LET res == [NoAdapter EXCEPT !.kind = kind, !.curr_epoch = epoch]
    IN  Step(update_stake_pool(res, account.data).self, Ok)

SplFromKeyedAccount(kind, account, epoch) ==
    LET res == [NoAdapter EXCEPT !.kind = kind, !.curr_epoch = epoch]
    IN  update_stake_pool(res, account.data)

SoceanFromKeyedAccount(account) ==
    update_stake_pool([NoAdapter EXCEPT !.kind = "socean"], account.data)

SplGetAccountsToUpdate(self) ==
    LET res == <<stake_pool_addr, self.stake_pool.validator_list>>
    IN  IF is_sol_deposit_capped(self) \/ is_stake_deposit_capped(self)
        THEN Append(res, spl_deposit_cap_guard_program_address)
        ELSE res

(* SplUpdate keeping the validator list it holds when the stake pool it has
   just parsed names the same validator-list address as the one before *)
SplUpdateCachedList(self, accounts_map) ==
    IF ~Has(accounts_map, stake_pool_addr)
    THEN Step(self, MissingAccount(stake_pool_addr))
    ELSE
    LET r1 == update_stake_pool(self, accounts_map[stake_pool_addr].data) IN
    IF r1.res # Ok THEN r1
    ELSE
    LET s1 == r1.self IN
    IF ~Has(accounts_map, s1.stake_pool.validator_list)
    THEN Step(s1, MissingAccount(s1.stake_pool.validator_list))
    ELSE
    LET r2 == IF s1.stake_pool.validator_list = self.stake_pool.validator_list
              THEN Step(s1, Ok)
              ELSE update_validator_list(
                       s1, accounts_map[s1.stake_pool.validator_list].data)
    IN
    IF r2.res # Ok THEN r2
    ELSE
    LET s2 == r2.self IN
    IF is_sol_deposit_capped(s2) \/ is_stake_deposit_capped(s2)
    THEN IF ~Has(accounts_map, spl_deposit_cap_guard_program_address)
         THEN Step(s2, MissingAccount(spl_deposit_cap_guard_program_address))
         ELSE update_deposit_cap_state(
                  s2, accounts_map[spl_deposit_cap_guard_program_address].data)
    ELSE Step(s2, Ok)

(* SplUpdate looking the deposit cap up whether or not a cap is active *)
SplUpdateAlwaysCap(self, accounts_map) ==
    IF ~Has(accounts_map, stake_pool_addr)
    THEN Step(self, MissingAccount(stake_pool_addr))
    ELSE
    LET r1 == update_stake_pool(self, accounts_map[stake_pool_addr].data) IN
    IF r1.res # Ok THEN r1
    ELSE
    LET s1 == r1.self IN
    IF ~Has(accounts_map, s1.stake_pool.validator_list)
    THEN Step(s1, MissingAccount(s1.stake_pool.validator_list))
    ELSE
    LET r2 == update_validator_list(s1, accounts_map[s1.stake_pool.validator_list].data) IN
    IF r2.res # Ok THEN r2
    ELSE
    LET s2 == r2.self IN
    IF ~Has(accounts_map, spl_deposit_cap_guard_program_address)
    THEN Step(s2, MissingAccount(spl_deposit_cap_guard_program_address))
    ELSE update_deposit_cap_state(
             s2, accounts_map[spl_deposit_cap_guard_program_address].data)

SplUpdate(self, accounts_map) ==
    IF ~Has(accounts_map, stake_pool_addr)
    THEN Step(self, MissingAccount(stake_pool_addr))
    ELSE
    LET r1 == update_stake_pool(self, accounts_map[stake_pool_addr].data) IN
    IF r1.res # Ok THEN r1
    ELSE
    LET s1 == r1.self IN
    IF ~Has(accounts_map, s1.stake_pool.validator_list)
    THEN Step(s1, MissingAccount(s1.stake_pool.validator_list))
    ELSE
    LET r2 == update_validator_list(s1, accounts_map[s1.stake_pool.validator_list].data) IN
    IF r2.res # Ok THEN r2
    ELSE
    LET s2 == r2.self IN
    IF is_sol_deposit_capped(s2) \/ is_stake_deposit_capped(s2)
    THEN IF ~Has(accounts_map, spl_deposit_cap_guard_program_address)
         THEN Step(s2, MissingAccount(spl_deposit_cap_guard_program_address))
         ELSE update_deposit_cap_state(
                  s2, accounts_map[spl_deposit_cap_guard_program_address].data)
    ELSE Step(s2, Ok)

WithdrawSolGetAccountsToUpdate(self) ==
    Append(SplGetAccountsToUpdate(self), self.stake_pool.reserve_stake)

WithdrawSolUpdate(self, account_map) ==
    LET r1 == SplUpdate(self, account_map) IN
    IF r1.res # Ok THEN r1
    ELSE
    LET s1 == r1.self IN
    IF ~Has(account_map, s1.stake_pool.reserve_stake)
    THEN Step(s1, MissingAccount(s1.stake_pool.reserve_stake))
    ELSE
    LET reserve_stake == account_map[s1.stake_pool.reserve_stake] IN
    IF reserve_stake.lamports = 0
    THEN Step(s1, WrongStakeStake)
    ELSE Step([s1 EXCEPT !.reserve_stake_lamports = reserve_stake.lamports], Ok)

SoceanGetAccountsToUpdate(self) ==
    <<stake_pool_addr, self.stake_pool.validator_list, sysvar_clock_ID>>

SoceanUpdate(self, accounts_map) ==
    IF ~Has(accounts_map, stake_pool_addr)
    THEN Step(self, MissingAccount(stake_pool_addr))
    ELSE
    LET r1 == update_stake_pool(self, accounts_map[stake_pool_addr].data) IN
    IF r1.res # Ok THEN r1
    ELSE
    LET s1 == r1.self IN
    IF ~Has(accounts_map, s1.stake_pool.validator_list)
    THEN Step(s1, MissingAccount(s1.stake_pool.validator_list))
    ELSE
    LET r2 == update_validator_list(s1, accounts_map[s1.stake_pool.validator_list].data) IN
    IF r2.res # Ok THEN r2
    ELSE
    LET s2 == r2.self IN
    IF ~Has(accounts_map, sysvar_clock_ID)
    THEN Step(s2, MissingAccount(sysvar_clock_ID))
    ELSE
    LET clock_data == accounts_map[sysvar_clock_ID].data IN
    IF ~ParsesAs(clock_data, "Clock")
    THEN Step(s2, Deserialize(sysvar_clock_ID))
    ELSE Step([s2 EXCEPT !.curr_epoch = clock_data.val], Ok)

get_accounts_to_update(self) ==
    CASE self.kind = "spl" -> SplGetAccountsToUpdate(self)
      [] self.kind = "withdrawsol" -> WithdrawSolGetAccountsToUpdate(self)
      [] self.kind = "socean" -> SoceanGetAccountsToUpdate(self)
      [] OTHER -> << >>

update(self, accounts_map) ==
    CASE self.kind = "spl" -> SplUpdate(self, accounts_map)
      [] self.kind = "withdrawsol" -> WithdrawSolUpdate(self, accounts_map)
      [] OTHER -> SoceanUpdate(self, accounts_map)

(* What an account at address a must parse as for the adapter to use it. *)
KindAt(a) ==
    CASE a = stake_pool_addr -> "StakePool"
      [] a \in ValidatorListAddrs -> "ValidatorList"
      [] a = spl_deposit_cap_guard_program_address -> "DepositCap"
      [] a = sysvar_clock_ID -> "Clock"
      [] OTHER -> "Lamports"

WellFormed(accounts_map, a) ==
    /\ a \in Addrs
    /\ Has(accounts_map, a)
    /\ IF KindAt(a) = "Lamports" THEN accounts_map[a].lamports > 0
       ELSE ParsesAs(accounts_map[a].data, KindAt(a))

Range(seq) == {seq[i] : i \in 1..Len(seq)}

(***************************************************************************)
(* Program constants, in units of 55,680 lamports.                         *)
(***************************************************************************)
STAKE_ACCOUNT_RENT_EXEMPT_LAMPORTS == 41
ZERO_DATA_ACC_RENT_EXEMPT_LAMPORTS == 16
PREFUND_FLASH_LOAN_LAMPORTS == 2 * STAKE_ACCOUNT_RENT_EXEMPT_LAMPORTS

(***************************************************************************)
(* Fee model (unstake.it).  Option<u64>: None is -1.                       *)
(* A schedule is flat (ratio a/denom) or liquidity-linear: the ratio       *)
(* rises linearly from a/denom (all liquidity remaining) to b/denom (no    *)
(* liquidity remaining).                                                   *)
(***************************************************************************)
None == -1
Min(x, y) == IF x < y THEN x ELSE y
Max(x, y) == IF x > y THEN x ELSE y
CeilDiv(x, y) == (x + y - 1) \div y

Flat(num, denom) == [variant |-> "Flat", a |-> num, b |-> num, denom |-> denom]
LiquidityLinear(maxLiq, zeroLiq, denom) ==
    [variant |-> "LiquidityLinear", a |-> maxLiq, b |-> zeroLiq, denom |-> denom]

PoolBalance(incoming, reserves) ==
    [pool_incoming_stake |-> incoming, sol_reserves_lamports |-> reserves]

(* apply: the fee charged on `gross`; never more than `gross`; None where
   the ratio is undefined (no lamports owned by the pool). *)
apply(fee, pool_balance, gross) ==
    IF fee.variant = "Flat"
    THEN IF fee.denom = 0 THEN None
         ELSE Min(gross, CeilDiv(gross * fee.a, fee.denom))
    ELSE LET owned == pool_balance.pool_incoming_stake + pool_balance.sol_reserves_lamports
             num == fee.a * owned
                      + (fee.b - fee.a) * (pool_balance.pool_incoming_stake + gross)
         IN  IF fee.denom = 0 \/ owned = 0 THEN None
             ELSE Min(gross, CeilDiv(gross * num, fee.denom * owned))

apply_fee(fee, pool_incoming_stake, sol_reserves_lamports, stake_account_lamports) ==
    apply(fee, PoolBalance(pool_incoming_stake, sol_reserves_lamports),
          stake_account_lamports)

ReverseIterations == 16

RECURSIVE FixedPoint(_, _, _, _, _)
FixedPoint(fee, pool_balance, target, gross, budget) ==
    LET f == apply(fee, pool_balance, gross) IN
    IF f = None THEN None
    ELSE IF target + f = gross THEN gross
    ELSE IF budget = 0 THEN None
    ELSE FixedPoint(fee, pool_balance, target, target + f, budget - 1)

(* pseudo_reverse: a gross amount whose payout after the fee is
   lamports_after_fee; closed-form division for the flat schedule, a bounded
   fixed-point search for the liquidity-linear one; None when it fails. *)
pseudo_reverse(fee, pool_balance, lamports_after_fee) ==
    IF fee.variant = "Flat"
    THEN IF fee.denom = 0 \/ fee.a >= fee.denom THEN None
         ELSE CeilDiv(lamports_after_fee * fee.denom, fee.denom - fee.a)
    ELSE FixedPoint(fee, pool_balance, lamports_after_fee, lamports_after_fee,
                    ReverseIterations)

Fees == {Flat(3, 20), Flat(20, 20), LiquidityLinear(1, 3, 20)}

(***************************************************************************)
(* PrefundRepayParams                                                      *)
(***************************************************************************)
unstake_it_pool_ID == "UPOOL"
FEE_ID == "UFEE"
SOL_RESERVES_ID == "URES"
PROTOCOL_FEE_ID == "UPFEE"
ACCOUNTS_TO_UPDATE == <<unstake_it_pool_ID, FEE_ID, SOL_RESERVES_ID, PROTOCOL_FEE_ID>>

Val(v) == [tag |-> "Ok", val |-> v]
Err(tag) == [tag |-> tag, val |-> 0]

NoFee == [variant |-> "Flat", a |-> 0, b |-> 0, denom |-> 1]
NoParams ==
    [fee |-> NoFee, incoming_stake |-> 0, sol_reserves_lamports |-> 0,
     protocol_fee_dest |-> DefaultPubkey]

PrefundRepayParams(fee, incoming_stake, sol_reserves_lamports, protocol_fee_dest) ==
    [fee |-> fee, incoming_stake |-> incoming_stake,
     sol_reserves_lamports |-> sol_reserves_lamports,
     protocol_fee_dest |-> protocol_fee_dest]

extract_fee_enum(accounts_map) ==
    IF ~Has(accounts_map, FEE_ID) THEN Err("Missing fee account")
    ELSE IF ~ParsesAs(accounts_map[FEE_ID].data, "Fee") THEN Err("Deserialize")
    ELSE Val(accounts_map[FEE_ID].data.val)

extract_incoming_stake(accounts_map) ==
    IF ~Has(accounts_map, unstake_it_pool_ID) THEN Err("Missing pool account")
    ELSE IF ~ParsesAs(accounts_map[unstake_it_pool_ID].data, "Pool") THEN Err("Deserialize")
    ELSE Val(accounts_map[unstake_it_pool_ID].data.val)

extract_sol_reserves_lamports(accounts_map) ==
    IF ~Has(accounts_map, SOL_RESERVES_ID) THEN Err("Missing SOL reserves account")
    ELSE Val(accounts_map[SOL_RESERVES_ID].lamports)

extract_protocol_fee_dest(accounts_map) ==
    IF ~Has(accounts_map, PROTOCOL_FEE_ID) THEN Err("Missing protocol fee account")
    ELSE IF ~ParsesAs(accounts_map[PROTOCOL_FEE_ID].data, "ProtocolFee") THEN Err("Deserialize")
    ELSE Val(accounts_map[PROTOCOL_FEE_ID].data.val)

try_init(accounts_map) ==
    LET fee == extract_fee_enum(accounts_map)
        incoming_stake == extract_incoming_stake(accounts_map)
        sol_reserves_lamports == extract_sol_reserves_lamports(accounts_map)
        protocol_fee_dest == extract_protocol_fee_dest(accounts_map)
    IN  IF fee.tag # "Ok" THEN Step(NoParams, fee)
        ELSE IF incoming_stake.tag # "Ok" THEN Step(NoParams, incoming_stake)
        ELSE IF sol_reserves_lamports.tag # "Ok" THEN Step(NoParams, sol_reserves_lamports)
        ELSE IF protocol_fee_dest.tag # "Ok" THEN Step(NoParams, protocol_fee_dest)
        ELSE Step(PrefundRepayParams(fee.val, incoming_stake.val,
                                     sol_reserves_lamports.val, protocol_fee_dest.val),
                  Val(0))

(* PrefundUpdate storing each field as soon as it is extracted *)
PrefundUpdateFieldByField(self, accounts_map) ==
    LET fee == extract_fee_enum(accounts_map)
        incoming_stake == extract_incoming_stake(accounts_map)
        sol_reserves_lamports == extract_sol_reserves_lamports(accounts_map)
        protocol_fee_dest == extract_protocol_fee_dest(accounts_map)
        s1 == [self EXCEPT !.fee = fee.val]
        s2 == [s1 EXCEPT !.incoming_stake = incoming_stake.val]
        s3 == [s2 EXCEPT !.sol_reserves_lamports = sol_reserves_lamports.val]
    IN  IF fee.tag # "Ok" THEN Step(self, fee)
        ELSE IF incoming_stake.tag # "Ok" THEN Step(s1, incoming_stake)
        ELSE IF sol_reserves_lamports.tag # "Ok" THEN Step(s2, sol_reserves_lamports)
        ELSE IF protocol_fee_dest.tag # "Ok" THEN Step(s3, protocol_fee_dest)
        ELSE Step([s3 EXCEPT !.protocol_fee_dest = protocol_fee_dest.val], Val(0))

(* PrefundUpdate carrying the previous protocol fee destination over *)
PrefundUpdateKeepDest(self, accounts_map) ==
    LET fee == extract_fee_enum(accounts_map)
        incoming_stake == extract_incoming_stake(accounts_map)
        sol_reserves_lamports == extract_sol_reserves_lamports(accounts_map)
        protocol_fee_dest == extract_protocol_fee_dest(accounts_map)
    IN  IF fee.tag # "Ok" THEN Step(self, fee)
        ELSE IF incoming_stake.tag # "Ok" THEN Step(self, incoming_stake)
        ELSE IF sol_reserves_lamports.tag # "Ok" THEN Step(self, sol_reserves_lamports)
        ELSE IF protocol_fee_dest.tag # "Ok" THEN Step(self, protocol_fee_dest)
        ELSE Step(PrefundRepayParams(fee.val, incoming_stake.val,
                                     sol_reserves_lamports.val, self.protocol_fee_dest),
                  Val(0))

PrefundUpdate(self, accounts_map) ==
    LET fee == extract_fee_enum(accounts_map)
        incoming_stake == extract_incoming_stake(accounts_map)
        sol_reserves_lamports == extract_sol_reserves_lamports(accounts_map)
        protocol_fee_dest == extract_protocol_fee_dest(accounts_map)
    IN  IF fee.tag # "Ok" THEN Step(self, fee)
        ELSE IF incoming_stake.tag # "Ok" THEN Step(self, incoming_stake)
        ELSE IF sol_reserves_lamports.tag # "Ok" THEN Step(self, sol_reserves_lamports)
        ELSE IF protocol_fee_dest.tag # "Ok" THEN Step(self, protocol_fee_dest)
        ELSE Step(PrefundRepayParams(fee.val, incoming_stake.val,
                                     sol_reserves_lamports.val, protocol_fee_dest.val),
                  Val(0))

(* slumdog_target_lamports with the liquidity check off by one (<= for <) *)
slumdog_target_lamports_le(self) ==
    LET lamports_required == PREFUND_FLASH_LOAN_LAMPORTS IN
    IF self.sol_reserves_lamports <= lamports_required + ZERO_DATA_ACC_RENT_EXEMPT_LAMPORTS
    THEN Err("Not enough liquidity for slumdog instant unstake")
    ELSE LET g == pseudo_reverse(self.fee,
                                 PoolBalance(self.incoming_stake, self.sol_reserves_lamports),
                                 lamports_required)
         IN  IF g = None THEN Err("pseudo_reverse() MathError") ELSE Val(g)

slumdog_target_lamports(self) ==
    LET lamports_required == PREFUND_FLASH_LOAN_LAMPORTS IN
    IF self.sol_reserves_lamports < lamports_required + ZERO_DATA_ACC_RENT_EXEMPT_LAMPORTS
    THEN Err("Not enough liquidity for slumdog instant unstake")
    ELSE LET g == pseudo_reverse(self.fee,
                                 PoolBalance(self.incoming_stake, self.sol_reserves_lamports),
                                 lamports_required)
         IN  IF g = None THEN Err("pseudo_reverse() MathError") ELSE Val(g)

(* prefund_split_lamports degrading to 0 when the target cannot be computed *)
prefund_split_lamports_or_zero(self) ==
    LET r == slumdog_target_lamports(self) IN
    IF r.tag # "Ok" THEN Val(0)
    ELSE Val(Max(r.val - STAKE_ACCOUNT_RENT_EXEMPT_LAMPORTS, 0))

prefund_split_lamports(self) ==
    LET r == slumdog_target_lamports(self) IN
    IF r.tag # "Ok" THEN r
    ELSE Val(Max(r.val - STAKE_ACCOUNT_RENT_EXEMPT_LAMPORTS, 0))

(***************************************************************************)
(* State of the parts this specification leaves alone.                     *)
(***************************************************************************)
NoUnstakeIt ==
    [fee |-> NoFee, incoming_stake |-> 0, sol_reserves_lamports |-> 0]

(***************************************************************************)
(* Refresh of the stake-pool adapters.  `last` records the latest call:    *)
(* the adapter before it, its result, and whether the snapshot held        *)
(* well-formed bytes for every address get_accounts_to_update() returned   *)
(* on the adapter before the call.  It also records                        *)
(*   hist  - where the held fields come from (see History),                *)
(*   retry - for an update that follows a failed update, on a snapshot     *)
(*           well formed for its own main state: whether the failed update *)
(*           had changed the adapter, and the outcome of the same update   *)
(*           applied to the adapter as it was before the failure,          *)
(*   again - for a successful update: the outcome of applying the same     *)
(*           snapshot once more,                                           *)
(*   cap   - for the SPL adapter: what the snapshot holds at the           *)
(*           deposit-cap address.                                          *)
(***************************************************************************)
Covers(accounts_map, self) ==
    \A a \in Range(get_accounts_to_update(self)) : WellFormed(accounts_map, a)

(* The snapshot holds well-formed bytes for the main address and for every
   address its own main state makes the adapter look up. *)
Requires(accounts_map, self) ==
    /\ WellFormed(accounts_map, stake_pool_addr)
    /\ Covers(accounts_map,
              [self EXCEPT !.stake_pool = accounts_map[stake_pool_addr].data.val])

(* How far an update got, read off its result: the stake pool is stored
   unless the call failed at the main address, the validator list unless it
   failed at or before the validator-list address, and the Socean epoch only
   by a call that returns Ok. *)
WrotePool(res) == res.addr # stake_pool_addr
WroteValidatorList(res) ==
    WrotePool(res) /\ res.addr \notin ValidatorListAddrs \cup {DefaultPubkey}
WroteEpoch(kind, res) == kind = "socean" /\ res = Ok

(* refreshed:       some update has returned Ok;
   vl_from:         the address the held validator list was read from;
   vl_with_pool:    the held validator list was stored by the call that
                    stored the held stake pool (so: from the same snapshot);
   epoch_with_pool: the same for the Socean adapter's curr_epoch. *)
NoHistory ==
    [refreshed |-> FALSE, vl_from |-> "-", vl_with_pool |-> FALSE,
     epoch_with_pool |-> FALSE]

History(hist, step) ==
    [refreshed |-> hist.refreshed \/ step.res = Ok,
     vl_from |-> IF WroteValidatorList(step.res)
                 THEN step.self.stake_pool.validator_list ELSE hist.vl_from,
     vl_with_pool |-> IF WroteValidatorList(step.res) THEN TRUE
                      ELSE IF WrotePool(step.res) THEN FALSE
                      ELSE hist.vl_with_pool,
     epoch_with_pool |-> IF WroteEpoch(step.self.kind, step.res) THEN TRUE
                         ELSE IF WrotePool(step.res) THEN FALSE
                         ELSE hist.epoch_with_pool]

NoStep == Step(NoAdapter, Ok)
NoRetry == [applies |-> FALSE, changed |-> FALSE, direct |-> NoStep]

Call(op, pre, res, tracked_ok, hist, retry, again, cap) ==
    [op |-> op, pre |-> pre, res |-> res, tracked_ok |-> tracked_ok,
     hist |-> hist, retry |-> retry, again |-> again, cap |-> cap]

Init ==
    /\ adapter = NoAdapter
    /\ params = NoParams
    /\ unstake_it = NoUnstakeIt
    /\ last = Call("none", NoAdapter, Ok, FALSE, NoHistory, NoRetry, NoStep, NoAccount)

FromKeyedAccount ==
    /\ adapter.kind = "none"
    /\ \E kind \in Kinds, account \in PoolOpts \ {NoAccount}, epoch \in AmmContextEpochs :
         LET r == IF kind = "socean" THEN SoceanFromKeyedAccount(account)
                  ELSE SplFromKeyedAccount(kind, account, epoch)
         IN  /\ adapter' = IF r.res = Ok THEN r.self ELSE adapter
             /\ last' = Call("from_keyed_account", adapter, r.res, FALSE,
                             NoHistory, NoRetry, NoStep, NoAccount)
    /\ UNCHANGED <<params, unstake_it>>

Refresh(accounts_map) ==
    LET r == update(adapter, accounts_map)
        retry == IF /\ last.op = "update"
                    /\ last.res # Ok
                    /\ Requires(accounts_map, adapter)
                 THEN [applies |-> TRUE, changed |-> adapter # last.pre,
                       direct |-> update(last.pre, accounts_map)]
                 ELSE NoRetry
        again == IF r.res = Ok THEN update(r.self, accounts_map) ELSE NoStep
        cap == IF adapter.kind = "spl"
               THEN accounts_map[spl_deposit_cap_guard_program_address]
               ELSE NoAccount
    IN  /\ adapter' = r.self
        /\ last' = Call("update", adapter, r.res, Covers(accounts_map, adapter),
                        History(last.hist, r), retry, again, cap)
        /\ UNCHANGED <<params, unstake_it>>

SplStakePoolUpdate ==
    /\ adapter.kind = "spl"
    /\ \E p \in PoolOpts, v1 \in ValidatorListOpts, v2 \in ValidatorListOpts2,
          c \in DepositCapOpts :
         Refresh(AccountMapOf(p, v1, v2, c, NoAccount, NoAccount))

WithWithdrawSolUpdate ==
    /\ adapter.kind = "withdrawsol"
    /\ \E p \in PoolOpts, v1 \in ValidatorListOpts, v2 \in ValidatorListOpts2,
          c \in DepositCapOpts, r \in ReserveOpts :
         Refresh(AccountMapOf(p, v1, v2, c, r, NoAccount))

SoceanStakePoolUpdate ==
    /\ adapter.kind = "socean"
    /\ \E p \in PoolOpts, v1 \in ValidatorListOpts, v2 \in ValidatorListOpts2,
          k \in ClockOpts :
         Refresh(AccountMapOf(p, v1, v2, NoAccount, NoAccount, k))

Next ==
    \/ FromKeyedAccount
    \/ SplStakePoolUpdate
    \/ WithWithdrawSolUpdate
    \/ SoceanStakePoolUpdate

Spec == Init /\ [][Next]_vars

(***************************************************************************)
(* Prefund flash-loan sizing.  `last` records the latest call on the       *)
(* params: the params before it, its result, whether all four addresses of *)
(* ACCOUNTS_TO_UPDATE resolved in the snapshot, the values the snapshot    *)
(* carries for them, the number of updates so far, and what try_init       *)
(* returns on the snapshot of the call.                                    *)
(***************************************************************************)
PrefundAddrs == Range(ACCOUNTS_TO_UPDATE)
IncomingStakes == {0, 60}
ReserveLamports ==
    { PREFUND_FLASH_LOAN_LAMPORTS + ZERO_DATA_ACC_RENT_EXEMPT_LAMPORTS - 1,
      PREFUND_FLASH_LOAN_LAMPORTS + ZERO_DATA_ACC_RENT_EXEMPT_LAMPORTS,
      PREFUND_FLASH_LOAN_LAMPORTS + ZERO_DATA_ACC_RENT_EXEMPT_LAMPORTS + 1,
      3 * PREFUND_FLASH_LOAN_LAMPORTS }
ProtocolFeeDests == {"D1", "D2"}

FeeOpts == {NoAccount, Account(Garbage, 1)}
              \cup {Account(Data("Fee", f), 1) : f \in Fees}
UnstakePoolOpts == {NoAccount, Account(Garbage, 1)}
              \cup {Account(Data("Pool", i), 1) : i \in IncomingStakes}
SolReservesOpts == {NoAccount} \cup {Account(Garbage, l) : l \in ReserveLamports}
ProtocolFeeOpts == {NoAccount, Account(Garbage, 1)}
              \cup {Account(Data("ProtocolFee", d), 1) : d \in ProtocolFeeDests}

PrefundAccountMapOf(f, p, r, d) ==
    [a \in PrefundAddrs |->
        CASE a = FEE_ID -> f
          [] a = unstake_it_pool_ID -> p
          [] a = SOL_RESERVES_ID -> r
          [] OTHER -> d]

PrefundAccountMaps ==
    { PrefundAccountMapOf(f, p, r, d) :
        f \in FeeOpts, p \in UnstakePoolOpts, r \in SolReservesOpts, d \in ProtocolFeeOpts }

(* The address is in the snapshot and the bytes there parse as what is read
   from it (nothing is parsed from the SOL reserves: its balance is read). *)
Resolves(accounts_map, a) ==
    /\ Has(accounts_map, a)
    /\ CASE a = FEE_ID -> ParsesAs(accounts_map[a].data, "Fee")
         [] a = unstake_it_pool_ID -> ParsesAs(accounts_map[a].data, "Pool")
         [] a = PROTOCOL_FEE_ID -> ParsesAs(accounts_map[a].data, "ProtocolFee")
         [] OTHER -> TRUE

AllResolve(accounts_map) == \A a \in PrefundAddrs : Resolves(accounts_map, a)

Carried(accounts_map) ==
    IF AllResolve(accounts_map)
    THEN PrefundRepayParams(accounts_map[FEE_ID].data.val,
                            accounts_map[unstake_it_pool_ID].data.val,
                            accounts_map[SOL_RESERVES_ID].lamports,
                            accounts_map[PROTOCOL_FEE_ID].data.val)
    ELSE NoParams

PrefundCall(op, pre, res, resolves, carried, n, fresh) ==
    [op |-> op, pre |-> pre, res |-> res, resolves |-> resolves,
     carried |-> carried, n |-> n, fresh |-> fresh]

InitPrefund ==
    /\ adapter = NoAdapter
    /\ unstake_it = NoUnstakeIt
    /\ \E accounts_map \in PrefundAccountMaps :
         LET r == try_init(accounts_map)
         IN  /\ r.res.tag = "Ok"
             /\ params = r.self
             /\ last = PrefundCall("try_init", NoParams, r.res, TRUE, r.self, 0, r)

PrefundParamsUpdate ==
    /\ last.n < MaxPrefundUpdates
    /\ \E f \in FeeOpts, p \in UnstakePoolOpts, r \in SolReservesOpts, d \in ProtocolFeeOpts :
         LET accounts_map == PrefundAccountMapOf(f, p, r, d)
             u == PrefundUpdate(params, accounts_map)
         IN  /\ params' = u.self
             /\ last' = PrefundCall("update", params, u.res, AllResolve(accounts_map),
                                    Carried(accounts_map), last.n + 1,
                                    try_init(accounts_map))
    /\ UNCHANGED <<adapter, unstake_it>>

SlumdogTargetLamports ==
    /\ last' = PrefundCall("slumdog_target_lamports", params,
                           slumdog_target_lamports(params), TRUE, params, last.n,
                           last.fresh)
    /\ UNCHANGED <<adapter, params, unstake_it>>

PrefundSplitLamports ==
    /\ last' = PrefundCall("prefund_split_lamports", params,
                           prefund_split_lamports(params), TRUE, params, last.n,
                           last.fresh)
    /\ UNCHANGED <<adapter, params, unstake_it>>

NextPrefund ==
    \/ PrefundParamsUpdate
    \/ SlumdogTargetLamports
    \/ PrefundSplitLamports

SpecPrefund == InitPrefund /\ [][NextPrefund]_vars

(***************************************************************************)
(* Quote engines                                                           *)
(***************************************************************************)
WithdrawStakeQuote(lamports_out, lamports_staked, fee_amount, voter) ==
    [lamports_out |-> lamports_out, lamports_staked |-> lamports_staked,
     fee_amount |-> fee_amount, voter |-> voter]
DefaultWithdrawStakeQuote == WithdrawStakeQuote(0, 0, 0, DefaultPubkey)

DepositStakeQuote(tokens_out, fee_amount, voter) ==
    [tokens_out |-> tokens_out, fee_amount |-> fee_amount, voter |-> voter]
DefaultDepositStakeQuote == DepositStakeQuote(0, 0, DefaultPubkey)

QuoteOk(q) == [tag |-> "Ok", val |-> q]
QuoteErr(tag) == [tag |-> tag, val |-> DefaultWithdrawStakeQuote]

(* spl_stake_pool's Fee::apply on the stake withdrawal fee *)
calc_pool_tokens_stake_withdrawal_fee(stake_pool, pool_tokens) ==
    IF stake_pool.stake_withdrawal_fee.denominator = 0 THEN 0
    ELSE (pool_tokens * stake_pool.stake_withdrawal_fee.numerator)
             \div stake_pool.stake_withdrawal_fee.denominator

(* spl_stake_pool's exchange rate: pool tokens to lamports *)
calc_lamports_withdraw_amount(stake_pool, pool_tokens) ==
    LET numerator == pool_tokens * stake_pool.total_lamports
        denominator == stake_pool.pool_token_supply
    IN  IF numerator < denominator \/ denominator = 0 THEN 0
        ELSE numerator \div denominator

(* get_quote_for_validator_copied without the comparison against the
   validator's active stake *)
get_quote_for_validator_copied_any_stake(self, validator_index, withdraw_amount) ==
    IF validator_index >= Len(self.validator_list) THEN QuoteErr("Panic")
    ELSE
    LET validator_list_entry == self.validator_list[validator_index + 1] IN
    IF validator_list_entry.status # "Active" THEN QuoteErr("InvalidState")
    ELSE
    LET stake_pool == self.stake_pool
        pool_tokens == withdraw_amount
        pool_tokens_fee == calc_pool_tokens_stake_withdrawal_fee(stake_pool, pool_tokens)
    IN
    IF pool_tokens_fee = None THEN QuoteErr("CalculationFailure")
    ELSE IF pool_tokens < pool_tokens_fee THEN QuoteErr("CalculationFailure")
    ELSE
    LET pool_tokens_burnt == pool_tokens - pool_tokens_fee
        withdraw_lamports == calc_lamports_withdraw_amount(stake_pool, pool_tokens_burnt)
    IN
    IF withdraw_lamports = None THEN QuoteErr("CalculationFailure")
    ELSE IF withdraw_lamports = 0 THEN QuoteErr("WithdrawalTooSmall")
    ELSE IF withdraw_lamports < STAKE_ACCOUNT_RENT_EXEMPT_LAMPORTS
    THEN QuoteErr("CalculationFailure")
    ELSE QuoteOk(WithdrawStakeQuote(
             withdraw_lamports,
             withdraw_lamports - STAKE_ACCOUNT_RENT_EXEMPT_LAMPORTS,
             pool_tokens_fee,
             validator_list_entry.vote_account_address))

(* get_quote_for_validator_copied looking at the validator's status only
   after the fee and exchange-rate arithmetic *)
get_quote_for_validator_copied_status_last(self, validator_index, withdraw_amount) ==
    IF validator_index >= Len(self.validator_list) THEN QuoteErr("Panic")
    ELSE
    LET validator_list_entry == self.validator_list[validator_index + 1] IN
    LET stake_pool == self.stake_pool
        pool_tokens == withdraw_amount
        pool_tokens_fee == calc_pool_tokens_stake_withdrawal_fee(stake_pool, pool_tokens)
    IN
    IF pool_tokens_fee = None THEN QuoteErr("CalculationFailure")
    ELSE IF pool_tokens < pool_tokens_fee THEN QuoteErr("CalculationFailure")
    ELSE
    LET pool_tokens_burnt == pool_tokens - pool_tokens_fee
        withdraw_lamports == calc_lamports_withdraw_amount(stake_pool, pool_tokens_burnt)
    IN
    IF withdraw_lamports = None THEN QuoteErr("CalculationFailure")
    ELSE IF validator_list_entry.status # "Active" THEN QuoteErr("InvalidState")
    ELSE IF withdraw_lamports = 0 THEN QuoteErr("WithdrawalTooSmall")
    ELSE IF withdraw_lamports > validator_list_entry.active_stake_lamports
    THEN QuoteErr("InvalidState")
    ELSE IF withdraw_lamports < STAKE_ACCOUNT_RENT_EXEMPT_LAMPORTS
    THEN QuoteErr("CalculationFailure")
    ELSE QuoteOk(WithdrawStakeQuote(
             withdraw_lamports,
             withdraw_lamports - STAKE_ACCOUNT_RENT_EXEMPT_LAMPORTS,
             pool_tokens_fee,
             validator_list_entry.vote_account_address))

(* get_quote_for_validator_copied with saturating_sub for checked_sub on
   the rent-exempt minimum *)
get_quote_for_validator_copied_saturating(self, validator_index, withdraw_amount) ==
    IF validator_index >= Len(self.validator_list) THEN QuoteErr("Panic")
    ELSE
    LET validator_list_entry == self.validator_list[validator_index + 1] IN
    IF validator_list_entry.status # "Active" THEN QuoteErr("InvalidState")
    ELSE
    LET stake_pool == self.stake_pool
        pool_tokens == withdraw_amount
        pool_tokens_fee == calc_pool_tokens_stake_withdrawal_fee(stake_pool, pool_tokens)
    IN
    IF pool_tokens_fee = None THEN QuoteErr("CalculationFailure")
    ELSE IF pool_tokens < pool_tokens_fee THEN QuoteErr("CalculationFailure")
    ELSE
    LET pool_tokens_burnt == pool_tokens - pool_tokens_fee
        withdraw_lamports == calc_lamports_withdraw_amount(stake_pool, pool_tokens_burnt)
    IN
    IF withdraw_lamports = None THEN QuoteErr("CalculationFailure")
    ELSE IF withdraw_lamports = 0 THEN QuoteErr("WithdrawalTooSmall")
    ELSE IF withdraw_lamports > validator_list_entry.active_stake_lamports
    THEN QuoteErr("InvalidState")
    ELSE QuoteOk(WithdrawStakeQuote(
             withdraw_lamports,
             Max(withdraw_lamports - STAKE_ACCOUNT_RENT_EXEMPT_LAMPORTS, 0),
             pool_tokens_fee,
             validator_list_entry.vote_account_address))

(* get_quote_for_validator_copied without the zero-lamports check *)
get_quote_for_validator_copied_dust(self, validator_index, withdraw_amount) ==
    IF validator_index >= Len(self.validator_list) THEN QuoteErr("Panic")
    ELSE
    LET validator_list_entry == self.validator_list[validator_index + 1] IN
    IF validator_list_entry.status # "Active" THEN QuoteErr("InvalidState")
    ELSE
    LET stake_pool == self.stake_pool
        pool_tokens == withdraw_amount
        pool_tokens_fee == calc_pool_tokens_stake_withdrawal_fee(stake_pool, pool_tokens)
    IN
    IF pool_tokens_fee = None THEN QuoteErr("CalculationFailure")
    ELSE IF pool_tokens < pool_tokens_fee THEN QuoteErr("CalculationFailure")
    ELSE
    LET pool_tokens_burnt == pool_tokens - pool_tokens_fee
        withdraw_lamports == calc_lamports_withdraw_amount(stake_pool, pool_tokens_burnt)
    IN
    IF withdraw_lamports = None THEN QuoteErr("CalculationFailure")
    ELSE IF withdraw_lamports > validator_list_entry.active_stake_lamports
    THEN QuoteErr("InvalidState")
    ELSE IF withdraw_lamports < STAKE_ACCOUNT_RENT_EXEMPT_LAMPORTS
    THEN QuoteErr("CalculationFailure")
    ELSE QuoteOk(WithdrawStakeQuote(
             withdraw_lamports,
             withdraw_lamports - STAKE_ACCOUNT_RENT_EXEMPT_LAMPORTS,
             pool_tokens_fee,
             validator_list_entry.vote_account_address))

(* validator_index is 0-based; .get(validator_index).unwrap() panics when the
   index is past the end of the list. *)
get_quote_for_validator_copied(self, validator_index, withdraw_amount) ==
    IF validator_index >= Len(self.validator_list) THEN QuoteErr("Panic")
    ELSE
    LET validator_list_entry == self.validator_list[validator_index + 1] IN
    IF validator_list_entry.status # "Active" THEN QuoteErr("InvalidState")
    ELSE
    LET stake_pool == self.stake_pool
        pool_tokens == withdraw_amount
        pool_tokens_fee == calc_pool_tokens_stake_withdrawal_fee(stake_pool, pool_tokens)
    IN
    IF pool_tokens_fee = None THEN QuoteErr("CalculationFailure")
    ELSE IF pool_tokens < pool_tokens_fee THEN QuoteErr("CalculationFailure")
    ELSE
    LET pool_tokens_burnt == pool_tokens - pool_tokens_fee
        withdraw_lamports == calc_lamports_withdraw_amount(stake_pool, pool_tokens_burnt)
    IN
    IF withdraw_lamports = None THEN QuoteErr("CalculationFailure")
    ELSE IF withdraw_lamports = 0 THEN QuoteErr("WithdrawalTooSmall")
    ELSE IF withdraw_lamports > validator_list_entry.active_stake_lamports
    THEN QuoteErr("InvalidState")
    ELSE IF withdraw_lamports < STAKE_ACCOUNT_RENT_EXEMPT_LAMPORTS
    THEN QuoteErr("CalculationFailure")
    ELSE QuoteOk(WithdrawStakeQuote(
             withdraw_lamports,
             withdraw_lamports - STAKE_ACCOUNT_RENT_EXEMPT_LAMPORTS,
             pool_tokens_fee,
             validator_list_entry.vote_account_address))

UnstakeItStakedex(fee, incoming_stake, sol_reserves_lamports) ==
    [fee |-> fee, incoming_stake |-> incoming_stake,
     sol_reserves_lamports |-> sol_reserves_lamports]

(* get_deposit_stake_quote_unchecked refusing a residual equal to the
   rent-exempt minimum (<= for <) *)
get_deposit_stake_quote_unchecked_le(self, withdraw_stake_quote) ==
    LET fee_amount == apply_fee(self.fee, self.incoming_stake,
                                self.sol_reserves_lamports,
                                withdraw_stake_quote.lamports_out)
    IN
    IF fee_amount = None THEN DefaultDepositStakeQuote
    ELSE
    LET tokens_out == Max(withdraw_stake_quote.lamports_out - fee_amount, 0) IN
    IF tokens_out > self.sol_reserves_lamports THEN DefaultDepositStakeQuote
    ELSE IF /\ tokens_out < self.sol_reserves_lamports
            /\ self.sol_reserves_lamports - tokens_out <= ZERO_DATA_ACC_RENT_EXEMPT_LAMPORTS
    THEN DefaultDepositStakeQuote
    ELSE DepositStakeQuote(tokens_out, fee_amount, withdraw_stake_quote.voter)

(* get_deposit_stake_quote_unchecked paying out the gross amount (the fee is
   reported but not subtracted) *)
get_deposit_stake_quote_unchecked_gross(self, withdraw_stake_quote) ==
    LET fee_amount == apply_fee(self.fee, self.incoming_stake,
                                self.sol_reserves_lamports,
                                withdraw_stake_quote.lamports_out)
    IN
    IF fee_amount = None THEN DefaultDepositStakeQuote
    ELSE
    LET tokens_out == withdraw_stake_quote.lamports_out IN
    IF tokens_out > self.sol_reserves_lamports THEN DefaultDepositStakeQuote
    ELSE IF /\ tokens_out < self.sol_reserves_lamports
            /\ self.sol_reserves_lamports - tokens_out < ZERO_DATA_ACC_RENT_EXEMPT_LAMPORTS
    THEN DefaultDepositStakeQuote
    ELSE DepositStakeQuote(tokens_out, fee_amount, withdraw_stake_quote.voter)

get_deposit_stake_quote_unchecked(self, withdraw_stake_quote) ==
    LET fee_amount == apply_fee(self.fee, self.incoming_stake,
                                self.sol_reserves_lamports,
                                withdraw_stake_quote.lamports_out)
    IN
    IF fee_amount = None THEN DefaultDepositStakeQuote
    ELSE
    LET tokens_out == Max(withdraw_stake_quote.lamports_out - fee_amount, 0) IN
    IF tokens_out > self.sol_reserves_lamports THEN DefaultDepositStakeQuote
    ELSE IF /\ tokens_out < self.sol_reserves_lamports
            /\ self.sol_reserves_lamports - tokens_out < ZERO_DATA_ACC_RENT_EXEMPT_LAMPORTS
    THEN DefaultDepositStakeQuote
    ELSE DepositStakeQuote(tokens_out, fee_amount, withdraw_stake_quote.voter)

(***************************************************************************)
(* The quote engines applied to every adapter state and input of a bounded *)
(* set.  `last` records the latest call: its arguments and its result.     *)
(***************************************************************************)
QuoteEcons == {Econ(110, 100, 1, 10), Econ(110, 100, 3, 2), Econ(100, 1000, 0, 0)}
QuoteValidatorLists == {DefaultValidatorList} \cup ValidatorLists
WithdrawAmounts == {0, 5, 50, 60, 100}

QuoteFees == Fees \cup {Flat(0, 20)}
QuoteReserves == {0, 10, ZERO_DATA_ACC_RENT_EXEMPT_LAMPORTS, 40, 100}
LamportsOuts == {0, 24, 25, 40, 41, 100}
Voters == {DefaultPubkey, "V1"}

QuoteCall(op, index, amount, voter, res) ==
    [op |-> op, index |-> index, amount |-> amount, voter |-> voter, res |-> res]

InitQuote ==
    /\ params = NoParams
    /\ last = QuoteCall("none", 0, 0, DefaultPubkey, QuoteErr("none"))
    /\ \/ /\ unstake_it = NoUnstakeIt
          /\ \E econ \in QuoteEcons, vl \in QuoteValidatorLists :
               adapter = [NoAdapter EXCEPT
                            !.kind = "spl",
                            !.stake_pool = StakePoolWith("VL1", "NONE", "DEFAULT", 0, econ),
                            !.validator_list = vl]
       \/ /\ adapter = NoAdapter
          /\ \E fee \in QuoteFees, incoming \in IncomingStakes, reserves \in QuoteReserves :
               unstake_it = UnstakeItStakedex(fee, incoming, reserves)

GetQuoteForValidatorCopied ==
    /\ adapter.kind = "spl"
    /\ \E validator_index \in 0..MaxValidatorIndex, withdraw_amount \in WithdrawAmounts :
         last' = QuoteCall("get_quote_for_validator_copied", validator_index,
                           withdraw_amount, DefaultPubkey,
                           get_quote_for_validator_copied(
                               adapter, validator_index, withdraw_amount))
    /\ UNCHANGED <<adapter, params, unstake_it>>

GetDepositStakeQuoteUnchecked ==
    /\ adapter.kind = "none"
    /\ \E lamports_out \in LamportsOuts, voter \in Voters :
         last' = QuoteCall("get_deposit_stake_quote_unchecked", 0, lamports_out, voter,
                           QuoteOk(get_deposit_stake_quote_unchecked(
                               unstake_it,
                               WithdrawStakeQuote(
                                   lamports_out,
                                   Max(lamports_out - STAKE_ACCOUNT_RENT_EXEMPT_LAMPORTS, 0),
                                   0, voter))))
    /\ UNCHANGED <<adapter, params, unstake_it>>

NextQuote ==
    \/ GetQuoteForValidatorCopied
    \/ GetDepositStakeQuoteUnchecked

SpecQuote == InitQuote /\ [][NextQuote]_vars

(***************************************************************************)
(* An adapter in use: constructed from the main account, asked whether it  *)
(* is up to date and for withdraw quotes, and refreshed.  `last` records   *)
(* the latest call: the adapter before it, its argument, its result, and   *)
(* whether update has been called on the adapter so far.                   *)
(***************************************************************************)
(* is_updated_this_epoch with > for >= *)
is_updated_this_epoch_gt(self) ==
    self.stake_pool.last_update_epoch > self.curr_epoch

is_updated_this_epoch(self) ==
    self.stake_pool.last_update_epoch >= self.curr_epoch

LifecycleEpochs == 0..MaxEpoch

LifecycleCall(op, pre, arg, res, update_called) ==
    [op |-> op, pre |-> pre, arg |-> arg, res |-> res,
     update_called |-> update_called]

InitLifecycle ==
    /\ adapter = NoAdapter
    /\ params = NoParams
    /\ unstake_it = NoUnstakeIt
    /\ last = LifecycleCall("none", NoAdapter, NoAccount, Ok, FALSE)

LifecycleFromKeyedAccount ==
    /\ adapter.kind = "none"
    /\ \E kind \in Kinds, account \in PoolOpts \ {NoAccount}, epoch \in LifecycleEpochs :
         LET r == IF kind = "socean" THEN SoceanFromKeyedAccount(account)
                  ELSE SplFromKeyedAccount(kind, account, epoch)
         IN  /\ adapter' = IF r.res = Ok THEN r.self ELSE adapter
             /\ last' = LifecycleCall("from_keyed_account", adapter, account, r.res, FALSE)
    /\ UNCHANGED <<params, unstake_it>>

(* the quote and the staleness check take &self *)
LifecycleIsUpdatedThisEpoch ==
    /\ adapter.kind \in {"spl", "withdrawsol"}
    /\ last' = LifecycleCall("is_updated_this_epoch", adapter, NoAccount,
                             is_updated_this_epoch(adapter), last.update_called)
    /\ UNCHANGED <<adapter, params, unstake_it>>

LifecycleGetQuote ==
    /\ adapter.kind \in {"spl", "withdrawsol"}
    /\ \E validator_index \in 0..MaxValidatorIndex, withdraw_amount \in WithdrawAmounts :
         last' = LifecycleCall("get_quote_for_validator_copied", adapter,
                               <<validator_index, withdraw_amount>>,
                               get_quote_for_validator_copied(
                                   adapter, validator_index, withdraw_amount),
                               last.update_called)
    /\ UNCHANGED <<adapter, params, unstake_it>>

LifecycleUpdate ==
    /\ adapter.kind # "none"
    /\ \E p \in PoolOpts, v1 \in ValidatorListOpts, v2 \in ValidatorListOpts2,
          k \in ClockOpts :
         LET accounts_map ==
                 AccountMapOf(p, v1, v2,
                              Account(Data("DepositCap", "capA"), 1),
                              Account(Garbage, 5), k)
             r == update(adapter, accounts_map)
         IN  /\ adapter' = r.self
             /\ last' = LifecycleCall("update", adapter, NoAccount, r.res, TRUE)
    /\ UNCHANGED <<params, unstake_it>>

NextLifecycle ==
    \/ LifecycleFromKeyedAccount
    \/ LifecycleIsUpdatedThisEpoch
    \/ LifecycleGetQuote
    \/ LifecycleUpdate

SpecLifecycle == InitLifecycle /\ [][NextLifecycle]_vars

(***************************************************************************)
(* Properties                                                              *)
(***************************************************************************)

(* C1: for the SPL and the Socean adapter, a refresh that returns an error
   leaves the stake pool, the validator list, the current epoch and the
   deposit-cap state as they were before the call. *)
C1_RefreshAllOrNothing ==
    (/\ last.op = "update"
     /\ last.pre.kind \in {"spl", "socean"}
     /\ last.res # Ok)
    => /\ adapter.stake_pool = last.pre.stake_pool
       /\ adapter.validator_list = last.pre.validator_list
       /\ adapter.curr_epoch = last.pre.curr_epoch
       /\ adapter.deposit_cap_state = last.pre.deposit_cap_state

(* C2: for the adapter with withdraw-SOL support, a refresh that fails
   because the reserve-stake address is missing or holds zero lamports has
   changed neither the inner adapter nor reserve_stake_lamports. *)
C2_ReserveFailureBeforeMutation ==
    (/\ last.op = "update"
     /\ last.pre.kind = "withdrawsol"
     /\ last.res \in {MissingAccount(last.pre.stake_pool.reserve_stake), WrongStakeStake})
    => adapter = last.pre

(* C4: a refresh against a snapshot that holds well-formed bytes for every
   address get_accounts_to_update() returned before the refresh does not
   fail with a missing-account error. *)
C4_TrackedAddressesSufficient ==
    (last.op = "update" /\ last.tracked_ok) => last.res.tag # "MissingAccount"

(* C3: PrefundRepayParams.update returns Ok exactly when all four addresses
   of ACCOUNTS_TO_UPDATE are in the snapshot and parse; then the four fields
   are the snapshot's; otherwise every field keeps its previous value. *)
C3_PrefundUpdateNoPartialPath ==
    last.op = "update"
    => /\ (last.res.tag = "Ok") <=> last.resolves
       /\ last.resolves => params = last.carried
       /\ ~last.resolves => params = last.pre

(* an update that fails at the last of the four addresses, after the three
   before it were extracted *)
C3_Witness ==
    /\ last.op = "update"
    /\ last.res.tag = "Missing protocol fee account"
    /\ params = last.pre

LiquidityThreshold == PREFUND_FLASH_LOAN_LAMPORTS + ZERO_DATA_ACC_RENT_EXEMPT_LAMPORTS
InsufficientLiquidity == Err("Not enough liquidity for slumdog instant unstake")

(* C5 as stated: with sol_reserves_lamports at the threshold the call
   succeeds; below the threshold it fails with the insufficient-liquidity
   error. *)
C5_LiquidityBoundary ==
    last.op = "slumdog_target_lamports"
    => /\ last.pre.sol_reserves_lamports = LiquidityThreshold => last.res.tag = "Ok"
       /\ last.pre.sol_reserves_lamports < LiquidityThreshold
            => last.res = InsufficientLiquidity

(* C5 amended: below the threshold the call fails with the
   insufficient-liquidity error whatever the fee schedule; at or above the
   threshold it never fails with that error, and it succeeds exactly when the
   fee inversion answers (otherwise it fails with the MathError). *)
C5_LiquidityBoundaryAmended ==
    last.op = "slumdog_target_lamports"
    => LET g == pseudo_reverse(last.pre.fee,
                               PoolBalance(last.pre.incoming_stake,
                                           last.pre.sol_reserves_lamports),
                               PREFUND_FLASH_LOAN_LAMPORTS)
       IN  /\ last.pre.sol_reserves_lamports < LiquidityThreshold
                => last.res = InsufficientLiquidity
           /\ last.pre.sol_reserves_lamports >= LiquidityThreshold
                => /\ last.res # InsufficientLiquidity
                   /\ g # None => last.res = Val(g)
                   /\ g = None => last.res = Err("pseudo_reverse() MathError")

C5_Witness ==
    /\ last.op = "slumdog_target_lamports"
    /\ last.pre.sol_reserves_lamports = LiquidityThreshold
    /\ last.res.tag = "Ok"

(* C7: prefund_split_lamports is slumdog_target_lamports less
   STAKE_ACCOUNT_RENT_EXEMPT_LAMPORTS, saturating at zero; it returns Ok
   exactly when slumdog_target_lamports does, and the same error when it
   does not. *)
C7_PrefundSplitSaturating ==
    last.op = "prefund_split_lamports"
    => LET target == slumdog_target_lamports(last.pre)
       IN  /\ (last.res.tag = "Ok") <=> (target.tag = "Ok")
           /\ target.tag = "Ok"
                => /\ last.res.val >= 0
                   /\ last.res.val = Max(target.val - STAKE_ACCOUNT_RENT_EXEMPT_LAMPORTS, 0)
           /\ target.tag # "Ok" => last.res = target

C7_Witness ==
    /\ last.op = "prefund_split_lamports"
    /\ slumdog_target_lamports(last.pre).tag = "pseudo_reverse() MathError"
    /\ last.res.tag # "Ok"

(* What the deposit quote computes from its input and the pool state. *)
DepositFee ==
    apply_fee(unstake_it.fee, unstake_it.incoming_stake,
              unstake_it.sol_reserves_lamports, last.amount)
DepositTokensOut == Max(last.amount - DepositFee, 0)
DepositUnavailable ==
    \/ DepositFee = None
    \/ DepositTokensOut > unstake_it.sol_reserves_lamports
    \/ /\ 0 < unstake_it.sol_reserves_lamports - DepositTokensOut
       /\ unstake_it.sol_reserves_lamports - DepositTokensOut
            < ZERO_DATA_ACC_RENT_EXEMPT_LAMPORTS

(* C9 as stated: the deposit quote is the default DepositStakeQuote exactly
   when the fee is undefined, or tokens_out exceeds the reserves, or the
   residual is positive and below the rent-exempt minimum; otherwise it
   carries the input's voter. *)
C9_SentinelCharacterisation ==
    last.op = "get_deposit_stake_quote_unchecked"
    => /\ last.res.tag = "Ok"
       /\ (last.res.val = DefaultDepositStakeQuote) <=> DepositUnavailable
       /\ ~DepositUnavailable => last.res.val.voter = last.voter

(* C9 amended: the deposit quote never fails; under the three conditions it
   is the default DepositStakeQuote, otherwise it is the quote (tokens_out,
   fee_amount, input's voter); so it equals the default exactly when one of
   the conditions holds or the computed quote is itself all zero with the
   default voter. *)
C9_SentinelCharacterisationAmended ==
    last.op = "get_deposit_stake_quote_unchecked"
    => /\ last.res.tag = "Ok"
       /\ DepositUnavailable => last.res.val = DefaultDepositStakeQuote
       /\ ~DepositUnavailable
            => last.res.val = DepositStakeQuote(DepositTokensOut, DepositFee, last.voter)
       /\ (last.res.val = DefaultDepositStakeQuote)
            <=> \/ DepositUnavailable
                \/ /\ DepositTokensOut = 0
                   /\ DepositFee = 0
                   /\ last.voter = DefaultPubkey

(* a residual of the rent-exempt minimum less one gives the sentinel *)
C9_Witness ==
    /\ last.op = "get_deposit_stake_quote_unchecked"
    /\ DepositFee # None
    /\ unstake_it.sol_reserves_lamports - DepositTokensOut
         = ZERO_DATA_ACC_RENT_EXEMPT_LAMPORTS - 1
    /\ last.voter # DefaultPubkey
    /\ last.res.val = DefaultDepositStakeQuote

(* C10: every Ok WithdrawStakeQuote has fee_amount <= the pool tokens asked
   for, and every deposit quote other than the sentinel has fee_amount <=
   the input lamports_out and tokens_out = lamports_out - fee_amount. *)
C10_FeeWithinGross ==
    /\ (last.op = "get_quote_for_validator_copied" /\ last.res.tag = "Ok")
         => /\ 0 <= last.res.val.fee_amount
            /\ last.res.val.fee_amount <= last.amount
    /\ (/\ last.op = "get_deposit_stake_quote_unchecked"
        /\ last.res.val # DefaultDepositStakeQuote)
         => /\ 0 <= last.res.val.fee_amount
            /\ last.res.val.fee_amount <= last.amount
            /\ last.res.val.tokens_out = last.amount - last.res.val.fee_amount

C10_Witness ==
    /\ last.op = "get_deposit_stake_quote_unchecked"
    /\ last.res.val # DefaultDepositStakeQuote
    /\ last.res.val.fee_amount > 0
    /\ last.res.val.tokens_out > 0

(***************************************************************************)
(* The withdraw quote: what the engine computes from the arguments of the  *)
(* latest call and the adapter it ran on.                                  *)
(***************************************************************************)
WithdrawCalled == last.op = "get_quote_for_validator_copied"
WithdrawTargeted == WithdrawCalled /\ last.index < Len(adapter.validator_list)
WithdrawEntry == adapter.validator_list[last.index + 1]
WithdrawFee == calc_pool_tokens_stake_withdrawal_fee(adapter.stake_pool, last.amount)
WithdrawLamports ==
    calc_lamports_withdraw_amount(adapter.stake_pool, last.amount - WithdrawFee)
(* the targeted validator is Active and the arithmetic up to the withdraw
   lamports has an answer *)
WithdrawComputed ==
    /\ WithdrawTargeted
    /\ WithdrawEntry.status = "Active"
    /\ WithdrawFee # None
    /\ WithdrawFee <= last.amount
    /\ WithdrawLamports # None

(* C11: when the computed withdraw lamports exceed the targeted validator's
   active_stake_lamports the engine returns the InvalidState error and no
   quote; every Ok quote has lamports_out <= that validator's
   active_stake_lamports. *)
C11_WithinActiveStake ==
    /\ (WithdrawComputed /\ WithdrawLamports > WithdrawEntry.active_stake_lamports)
         => last.res = QuoteErr("InvalidState")
    /\ (WithdrawCalled /\ last.res.tag = "Ok")
         => /\ WithdrawTargeted
            /\ last.res.val.lamports_out <= WithdrawEntry.active_stake_lamports

C11_Witness ==
    /\ WithdrawComputed
    /\ WithdrawLamports > WithdrawEntry.active_stake_lamports
    /\ last.res.tag = "InvalidState"

(* C12: a withdraw quote against an entry whose status is not Active is
   rejected with InvalidState for every token amount, also for amounts on
   which the fee arithmetic would fail; the voter of every Ok quote is the
   vote account of the targeted entry, which is Active. *)
C12_OnlyActiveValidators ==
    /\ (WithdrawTargeted /\ WithdrawEntry.status # "Active")
         => last.res = QuoteErr("InvalidState")
    /\ (WithdrawCalled /\ last.res.tag = "Ok")
         => /\ WithdrawTargeted
            /\ WithdrawEntry.status = "Active"
            /\ last.res.val.voter = WithdrawEntry.vote_account_address
            /\ \E i \in 1..Len(adapter.validator_list) :
                  /\ adapter.validator_list[i].status = "Active"
                  /\ adapter.validator_list[i].vote_account_address = last.res.val.voter

(* a non-Active entry and an amount whose fee exceeds it *)
C12_Witness ==
    /\ WithdrawTargeted
    /\ WithdrawEntry.status # "Active"
    /\ WithdrawFee > last.amount
    /\ last.res.tag = "InvalidState"

(* C13: every Ok quote has lamports_staked = lamports_out -
   STAKE_ACCOUNT_RENT_EXEMPT_LAMPORTS >= 0; when the computed lamports_out is
   below the rent-exempt minimum the call is rejected. *)
C13_LamportsStaked ==
    /\ (WithdrawCalled /\ last.res.tag = "Ok")
         => /\ last.res.val.lamports_out = WithdrawLamports
            /\ last.res.val.lamports_staked
                 = last.res.val.lamports_out - STAKE_ACCOUNT_RENT_EXEMPT_LAMPORTS
            /\ last.res.val.lamports_staked >= 0
    /\ (WithdrawComputed /\ WithdrawLamports < STAKE_ACCOUNT_RENT_EXEMPT_LAMPORTS)
         => last.res.tag # "Ok"

(* lamports_out positive, within the active stake, below the minimum *)
C13_Witness ==
    /\ WithdrawComputed
    /\ WithdrawLamports > 0
    /\ WithdrawLamports <= WithdrawEntry.active_stake_lamports
    /\ WithdrawLamports < STAKE_ACCOUNT_RENT_EXEMPT_LAMPORTS
    /\ last.res.tag = "CalculationFailure"

(* C14: for an Active validator, when the pool tokens left after the fee
   convert to zero lamports the engine returns WithdrawalTooSmall; every Ok
   quote has lamports_out > 0. *)
C14_DustRejected ==
    /\ (WithdrawComputed /\ WithdrawLamports = 0)
         => last.res = QuoteErr("WithdrawalTooSmall")
    /\ (WithdrawCalled /\ last.res.tag = "Ok") => last.res.val.lamports_out > 0

(* a positive token amount worth less than one lamport *)
C14_Witness ==
    /\ WithdrawComputed
    /\ last.amount > 0
    /\ WithdrawLamports = 0
    /\ last.res.tag = "WithdrawalTooSmall"

(* C19: PrefundRepayParams.update on a snapshot returns Ok exactly when
   try_init on that snapshot returns Ok, and then the params equal the value
   try_init returns, whatever the params were before; when it fails it fails
   with the error try_init fails with. *)
C19_UpdateIsTryInit ==
    last.op = "update"
    => /\ (last.res.tag = "Ok") <=> (last.fresh.res.tag = "Ok")
       /\ last.res.tag = "Ok" => params = last.fresh.self
       /\ last.res.tag # "Ok" => last.res = last.fresh.res

(* an update that replaces every one of the four fields *)
C19_Witness ==
    /\ last.op = "update"
    /\ last.res.tag = "Ok"
    /\ params = last.fresh.self
    /\ params.fee # last.pre.fee
    /\ params.incoming_stake # last.pre.incoming_stake
    /\ params.sol_reserves_lamports # last.pre.sol_reserves_lamports
    /\ params.protocol_fee_dest # last.pre.protocol_fee_dest

(* C17: in every state after a first successful refresh of the SPL or the
   Socean adapter, the validator list held was read by the call that read
   the stake pool held, from the address this stake pool names as its
   validator list; for Socean the same holds of the current epoch. *)
C17_SnapshotConsistency ==
    (adapter.kind \in {"spl", "socean"} /\ last.hist.refreshed)
    => /\ last.hist.vl_with_pool
       /\ last.hist.vl_from = adapter.stake_pool.validator_list
       /\ adapter.kind = "socean" => last.hist.epoch_with_pool

(* C18: an update that follows a failed update, on a snapshot well formed
   for every address its own main state requires, succeeds and leaves the
   stake pool, the validator list and the epoch that the same update leaves
   on the adapter as it was before the failure; a successful update applied
   once more with the same snapshot succeeds and changes nothing. *)
C18_RetryAfterFailure ==
    last.op = "update"
    => /\ last.retry.applies
            => /\ last.res = Ok
               /\ last.retry.direct.res = Ok
               /\ adapter.stake_pool = last.retry.direct.self.stake_pool
               /\ adapter.validator_list = last.retry.direct.self.validator_list
               /\ adapter.curr_epoch = last.retry.direct.self.curr_epoch
       /\ last.res = Ok => last.again = Step(adapter, Ok)

(* the failed update had changed the adapter, and the retry replaces the
   stake pool and the validator list it left *)
C18_Witness ==
    /\ last.op = "update"
    /\ last.retry.applies
    /\ last.retry.changed
    /\ last.pre.stake_pool # adapter.stake_pool
    /\ last.pre.validator_list # adapter.validator_list
    /\ last.res = Ok

(* the SPL adapter holds a sol or a stake deposit cap *)
DepositCapped(self) == is_sol_deposit_capped(self) \/ is_stake_deposit_capped(self)

(* C20: an SPL refresh that has parsed the stake pool and the validator
   list: with no deposit cap in the parsed stake pool it returns Ok whatever
   the snapshot holds at the deposit-cap address and leaves the stored
   deposit-cap state alone; with a cap it looks the address up, fails when it
   is missing or does not parse, and otherwise stores its state.
   get_accounts_to_update contains the deposit-cap address exactly when the
   held stake pool has a sol or a stake deposit cap. *)
C20_DepositCapFrame ==
    /\ (/\ last.op = "update"
        /\ last.pre.kind = "spl"
        /\ WroteValidatorList(last.res))
         => IF ~DepositCapped(adapter)
            THEN /\ last.res = Ok
                 /\ adapter.deposit_cap_state = last.pre.deposit_cap_state
            ELSE CASE last.cap = NoAccount ->
                        /\ last.res = MissingAccount(spl_deposit_cap_guard_program_address)
                        /\ adapter.deposit_cap_state = last.pre.deposit_cap_state
                   [] ~ParsesAs(last.cap.data, "DepositCap") ->
                        /\ last.res = Deserialize(spl_deposit_cap_guard_program_address)
                        /\ adapter.deposit_cap_state = last.pre.deposit_cap_state
                   [] OTHER ->
                        /\ last.res = Ok
                        /\ adapter.deposit_cap_state = last.cap.data.val
    /\ adapter.kind = "spl"
         => (spl_deposit_cap_guard_program_address
                \in Range(get_accounts_to_update(adapter)))
              <=> DepositCapped(adapter)

(* a cap state stored by an earlier refresh is kept by a refresh whose stake
   pool has no cap and whose snapshot lacks the deposit-cap address *)
C20_Witness ==
    /\ last.op = "update"
    /\ last.pre.kind = "spl"
    /\ last.res = Ok
    /\ ~DepositCapped(adapter)
    /\ last.cap = NoAccount
    /\ adapter.deposit_cap_state # DefaultDepositCapState

(* C15: from_keyed_account returns Ok exactly when the main-account bytes
   parse, and fails with Deserialize, building no adapter, when they do not;
   the adapter it builds holds the stake pool of those bytes, an empty
   validator list, no deposit-cap state and no reserve_stake_lamports, and
   keeps them through every quote and staleness call until update is called
   for the first time. *)
C15_InitFromMainAccountOnly ==
    /\ last.op = "from_keyed_account"
         => /\ (last.res = Ok) <=> ParsesAs(last.arg.data, "StakePool")
            /\ last.res # Ok => (last.res.tag = "Deserialize" /\ adapter.kind = "none")
            /\ last.res = Ok => adapter.stake_pool = last.arg.data.val
    /\ (adapter.kind # "none" /\ ~last.update_called)
         => /\ adapter.stake_pool \in StakePools
            /\ adapter.validator_list = DefaultValidatorList
            /\ adapter.deposit_cap_state = DefaultDepositCapState
            /\ adapter.reserve_stake_lamports = 0

(* a quote asked of the wrapper before any update *)
C15_Witness ==
    /\ last.op = "get_quote_for_validator_copied"
    /\ ~last.update_called
    /\ adapter.kind = "withdrawsol"
    /\ adapter.validator_list = DefaultValidatorList
    /\ adapter.reserve_stake_lamports = 0

(* C16: is_updated_this_epoch returns true exactly when the held stake
   pool's last_update_epoch is >= the adapter's curr_epoch, and leaves the
   adapter as it was. *)
C16_StalenessCheck ==
    last.op = "is_updated_this_epoch"
    => /\ last.res <=> (adapter.stake_pool.last_update_epoch >= adapter.curr_epoch)
       /\ adapter = last.pre

(* last_update_epoch equal to the current epoch, after a refresh *)
C16_Witness ==
    /\ last.op = "is_updated_this_epoch"
    /\ last.update_called
    /\ adapter.stake_pool.last_update_epoch = adapter.curr_epoch
    /\ last.res

(* The values get_quote_for_validator_copied can return: an Ok quote or one
   of the StakePoolError values of its body.  "Panic" is not among them: it
   stands for the unwrap() of a missing entry, which unwinds instead of
   returning. *)
WithdrawQuoteReturns ==
    {"Ok", "InvalidState", "CalculationFailure", "WithdrawalTooSmall"}

(* C21: on every adapter reached by from_keyed_account and any sequence of
   updates, also one never updated whose validator list is empty, and for
   every validator index and token amount, get_quote_for_validator_copied
   returns an Ok quote or an error value; in particular an index outside the
   held validator list is answered with an error value. *)
C21_QuoteNeverAborts ==
    last.op = "get_quote_for_validator_copied"
    => last.res.tag \in WithdrawQuoteReturns

====
